---- MODULE Spec2Model ----
(***************************************************************************)
(* Model of ernado/backuper: backuper/backup.py (index resolver, Backuper  *)
(* pipeline, command line) and backuper/archivator.py (the three archiver  *)
(* wrappers).  Python 2 semantics.                                         *)
(*                                                                         *)
(* The file system is a partial function from paths to contents.  A path   *)
(* is <<area, index, name>>: area "b" is the backups directory, "w" the    *)
(* per-run work folder named by the index, "r" a path obtained by          *)
(* formatting an open file object with %s.  A content is a set of items    *)
(* <<tag, n>>: a manifest or a media archive holds <<entry, version>>      *)
(* items, a tar of a folder holds one <<name, 0>> per file, a log holds    *)
(* one <<message, 0>> per kind of line.                                    *)
(***************************************************************************)
EXTENDS Integers, Sequences, FiniteSets, TLC

\* ---------------------------------------------------------------- bounds
MaxDay == 2
MaxMonth == 2
StartYear == 2024
MaxVersion == 1
MaxRuns == 2

ProjectTitle == "acme"
Entries == {"a", "b"}

\* ------------------------------------------------- backup.py: TYPES, index
daily == "daily"
monthly == "monthly"
None == "None"

\* b_type[0] (backup.py:46, 48, 213): the first character of a string.
FirstChar(s) ==
    CASE s \in {"daily", "d"} -> "d"
      [] s \in {"monthly", "m"} -> "m"
      [] s = "weekly" -> "w"
      [] OTHER -> "?"

\* A string is the sequence of its characters; a project name counts as one.
Digit(n) == <<"0", "1", "2", "3", "4", "5", "6", "7", "8", "9">>[n + 1]

\* str(n) for n >= 0.
RECURSIVE Str(_)
Str(n) == IF n < 10 THEN <<Digit(n)>> ELSE Str(n \div 10) \o <<Digit(n % 10)>>

\* '{:0>2}' (backup.py:50): right-aligned in a field of width 2, filled with 0.
Pad2_unpadded(s) == s
Pad2(s) == IF Len(s) >= 2 THEN s ELSE <<"0">> \o s

\* s[-2:] (backup.py:54): the last two characters, or all of a shorter string.
LastTwo(s) == IF Len(s) <= 2 THEN s ELSE SubSeq(s, Len(s) - 1, Len(s))

\* get_backup_type (backup.py:65-70), day given.
get_backup_type(day) == IF day = 1 THEN monthly ELSE daily

\* get_backup_index (backup.py:45-54) for str project_name and int day,
\* month, year: '{project}-{t}-{d:0>2}-{m:0>2}-{y}'.
get_backup_index(project_name, day, month, year, b_type) ==
    LET t == IF b_type # None /\ b_type \in {daily, monthly}
             THEN FirstChar(b_type)
             ELSE FirstChar(get_backup_type(day))
    IN  <<project_name, "-", t, "-">> \o Pad2(Str(day)) \o <<"-">>
            \o Pad2(Str(month)) \o <<"-">> \o LastTwo(Str(year))

\* get_current_index (backup.py:57-62), with "now" given.
get_current_index_today(project_name, b_type, today) ==
    get_backup_index(project_name, today.day, today.month, today.year, b_type)
get_current_index(project_name, b_type, today) ==
    LET day == IF b_type = monthly THEN 1 ELSE today.day
    IN  get_backup_index(project_name, day, today.month, today.year, b_type)

\* ------------------------------------------------------------ file system
Exists(f, p) == p \in DOMAIN f
Write(f, p, c) == [q \in DOMAIN f \cup {p} |-> IF q = p THEN c ELSE f[q]]
Remove(f, p) == [q \in DOMAIN f \ {p} |-> f[q]]
\* open(p, 'a'): created empty when absent, otherwise kept, then appended to.
AppendTo(f, p, c) == Write(f, p, (IF Exists(f, p) THEN f[p] ELSE {}) \cup c)

BPath(idx, suffix) == <<"b", idx, suffix>>
WPath(idx, name) == <<"w", idx, name>>
\* '%s' % <open file>: the repr of the file object, a path of its own.
ReprPath(p) == <<"r", p[2], p[3]>>
WorkFiles(f, idx) == {p \in DOMAIN f : p[1] = "w" /\ p[2] = idx}

EmptyFs == [p \in {} |-> {}]
Snapshot(m) == {<<e, m[e]>> : e \in Entries}

\* ------------------------------------------------------------- values
NoIdx == <<>>
MediaFolder == <<"m", NoIdx, "media">>
\* An open file object on path p, and the logger object.
FileObj(p) == <<"o", p[2], p[3]>>
Logger == <<"l", NoIdx, "log">>
IsFileObj(x) == x[1] = "o"
\* '%s' % x: a string is itself, a file object is its repr.
Fmt(x) == IF IsFileObj(x) THEN ReprPath(x) ELSE x

Ok(f) == [files |-> f, exc |-> ""]

\* Python values with their type, as passed to get_backup_index.
PyStr(s) == [type |-> "str", s |-> s, n |-> 0]
PyInt(n) == [type |-> "int", s |-> "", n |-> n]
PyNone == [type |-> "NoneType", s |-> "", n |-> 0]

\* get_backup_index (backup.py:32-54) called with any values, under the
\* default interpreter (assert statements are executed): the four asserts,
\* then the default of year, then the formatting.
get_backup_index_call(project_name, day, month, year, b_type, today) ==
    IF \/ project_name.type # "str"
       \/ day.type # "int"
       \/ month.type # "int"
       \/ year.type # "int"
    THEN [exc |-> "AssertionError", value |-> NoIdx]
    ELSE LET y == IF year = PyNone THEN today.year ELSE year.n
         IN  [exc |-> "",
              value |-> get_backup_index(project_name.s, day.n, month.n, y, b_type)]

NoCall ==
    [fn |-> "", project |-> PyNone, day |-> PyNone, month |-> PyNone,
     year |-> PyNone, b_type |-> None, exc |-> "", value |-> NoIdx]
Raise(f, e) == [files |-> f, exc |-> e]

\* --------------------------------------------------------- archivator.py
\* Number of parameters of each def: a call with another number of
\* positional arguments raises TypeError before the body runs.
compress_file_nparams == 2
compress_nparams == 3
incremental_compress_nparams == 4

\* compress_file (archivator.py:12-26).
compress_file(f, input_file, output_file) ==
    IF ~Exists(f, input_file)
    THEN Raise(f, "IOError")
    ELSE Ok(Write(f, output_file, {<<input_file[3], 0>>}))

\* The tar subprocess (archivator.py:44, 62-65): stdout and stderr go to the
\* log; exit 0 leaves the archive, and with --listed-incremental the archive
\* holds what differs from the snapshot file, which is rewritten; a non-zero
\* exit may leave a partial archive.
TarFull(f, folder, output_file, log_p, ok) ==
    LET g == AppendTo(f, log_p, {<<"tar-output", 0>>})
    IN  IF ok
        THEN Write(g, output_file, {<<p[3], 0>> : p \in WorkFiles(f, folder[2])})
        ELSE Write(g, output_file, {<<"partial", 0>>})

TarIncremental(f, m, output_file, log_p, snap_p, ok) ==
    LET g == AppendTo(f, log_p, {<<"tar-output", 0>>})
        old == IF Exists(g, snap_p) THEN g[snap_p] ELSE {}
    IN  IF ok
        THEN Write(Write(g, output_file, Snapshot(m) \ old), snap_p, Snapshot(m))
        ELSE Write(g, output_file, {<<"partial", 0>>})

\* compress (archivator.py:29-50); codecs.open of a file object is a TypeError.
compress(f, input_folder, output_file, log_file, ok) ==
    IF IsFileObj(log_file)
    THEN Raise(f, "TypeError")
    ELSE LET g == TarFull(f, input_folder, Fmt(output_file), log_file, ok)
         IN  IF ok THEN Ok(g) ELSE Raise(g, "BackupException")

\* incremental_compress (archivator.py:53-70).
incremental_compress(f, m, input_folder, output_file, log_file, incremental_list_file, ok) ==
    IF IsFileObj(log_file)
    THEN Raise(f, "TypeError")
    ELSE LET g == TarIncremental(f, m, Fmt(output_file), log_file,
                                 Fmt(incremental_list_file), ok)
         IN  IF ok THEN Ok(g) ELSE Raise(g, "BackupException")

\* A Python call f(*args) of a def with n parameters and no defaults.
Binds(args, n) == Len(args) = n

\* ------------------------------------------------------------------ state
VARIABLES
    now,    \* the calendar date: [day, month, year]
    media,  \* the project's media folder: entry -> version
    fs,     \* [files, work, host, remote, reports]: files by path, the work
            \* folders that exist, the fixed folders that exist, the files on
            \* the remote store, the reports delivered
    run,    \* the current process: position, Backuper fields, oracle, history
    runs,   \* processes started so far
    hist,   \* history: [monthly, prev], see Record and Exit
    call    \* the last direct call of an index function: arguments, outcome

vars == <<now, media, fs, run, runs, hist, call>>

States == <<"Init", "FoldersReady", "DatabaseArchived", "MediaArchived",
            "BundleArchived", "CleanedUp", "Uploaded", "Reported", "Done">>
Position(s) == CHOOSE i \in 1..Len(States) : States[i] = s
Running == {States[i] : i \in 1..(Len(States) - 1)}
NextState(s) == States[Position(s) + 1]

\* What each external collaborator answers when (and if) it is called in this
\* run: the dumper, tar (incremental, full), the uploader, the notifier.  The
\* first failure ends the run, so at most one answer is a failure.
AllSucceed == [dump |-> TRUE, tarInc |-> TRUE, tarFull |-> TRUE,
               upload |-> TRUE, send |-> TRUE]
Collaborators == {"dump", "tarInc", "tarFull", "upload", "send"}
OnlyFails(c) == [AllSucceed EXCEPT ![c] = FALSE]
Env == {AllSucceed} \cup {OnlyFails(c) : c \in Collaborators}

NoDate == [day |-> 0, month |-> 0, year |-> 0]
NoArchive == {<<"none", 0>>}

\* pc, the Backuper's fields, and history of the run: the collaborators'
\* answers (env), the stages entered (trace), the stage that raised and the
\* exception (failed, cause), the files before the process started (start),
\* and the fixed folders and files and the work folders that existed then
\* (host0, work0), the media
\* archive this run produced and the media it was taken from.
IdleRun ==
    [pc |-> "idle", b_type |-> None, b_index |-> NoIdx, b_time |-> NoDate,
     current_folder |-> NoIdx, output_tarfile |-> BPath(NoIdx, ""),
     env |-> AllSucceed, trace |-> <<>>, failed |-> "", cause |-> "",
     start |-> EmptyFs, host0 |-> {}, work0 |-> {},
     archive |-> NoArchive, archived |-> {}]

LogPath(r) == BPath(r.b_index, "-backup.log.txt")
CompressLogPath(r) == BPath(r.b_index, "-compress.txt")
\* self.log.info(...): a line in the per-run log through the FileHandler.
Info(f, r) == AppendTo(f, LogPath(r), {<<"info", 0>>})

Result(fs1, f, r, e) == [fs |-> [fs1 EXCEPT !.files = f], r |-> r, exc |-> e]

\* --------------------------------------------------------- collaborators
\* generate_pgpass(), of the database module: writes the password file of
\* the database client.
generate_pgpass(fs1) == [fs1 EXCEPT !.host = @ \cup {"pgpass"}]

\* dump(title, stream, logger), the Database Dumper: writes a full dump to
\* the stream; its failure propagates.
dump(f, path, ok) ==
    IF ok THEN Ok(Write(f, path, {<<"dump", 0>>})) ELSE Raise(f, "DumpError")

\* upload_files(paths, cfg, logger), the Remote Uploader: transfers the files
\* to the remote target; its failure propagates.
upload_files(fs1, path, ok) ==
    IF ok /\ Exists(fs1.files, path)
    THEN [fs |-> [fs1 EXCEPT !.remote = @ \cup {path}], exc |-> ""]
    ELSE [fs |-> fs1, exc |-> "UploadError"]

\* send(subject, body, cfg, files, logger), the Notifier: delivers the
\* report; its failure is logged only.
send(fs1, idx, log_p, ok) ==
    IF ok
    THEN [fs |-> [fs1 EXCEPT !.reports = @ \cup {idx}], exc |-> ""]
    ELSE [fs |-> [fs1 EXCEPT !.files = AppendTo(@, log_p, {<<"error", 0>>})],
          exc |-> ""]

\* ------------------------------------------------------ backup.py: stages
\* backup() up to create_folders (backup.py:175-181, 158-168).
create_folders(fs1, r) ==
    LET f1 == Write(Info(fs1.files, r), CompressLogPath(r), {})
        cur == r.b_index
        f2 == IF "backups" \notin fs1.host THEN Info(f1, r) ELSE f1
        f3 == IF cur \notin fs1.work THEN Info(f2, r) ELSE f2
    IN  [fs |-> [fs1 EXCEPT !.files = f3,
                            !.host = @ \cup {"backups"},
                            !.work = @ \cup {cur}],
         r |-> [r EXCEPT !.current_folder = cur,
                         !.output_tarfile = BPath(cur, ".tar")],
         exc |-> ""]

\* The call compress_file(dump_file_path, dump_tarfile_path, self.log)
\* (backup.py:139).
Call_compress_file(f, args) ==
    IF Binds(args, compress_file_nparams)
    THEN compress_file(f, args[1], args[2])
    ELSE Raise(f, "TypeError")

\* dump_compress_database (backup.py:132-141).
dump_compress_database(fs1, r) ==
    LET dump_file_path == WPath(r.current_folder, "dump")
        dump_tarfile_path == WPath(r.current_folder, "dump.tar.gz")
        f1 == Write(fs1.files, dump_file_path, {})
        d == dump(f1, dump_file_path, r.env.dump)
    IN  IF d.exc # ""
        THEN Result(fs1, d.files, r, d.exc)
        ELSE LET f2 == Info(Info(d.files, r), r)
                 c == Call_compress_file(f2, <<dump_file_path, dump_tarfile_path, Logger>>)
             IN  IF c.exc # ""
                 THEN Result(fs1, c.files, r, c.exc)
                 ELSE Result(fs1, Info(Remove(c.files, dump_file_path), r), r, "")

\* str.replace on a path whose only occurrence of `a` is its suffix.
Replace(p, a, b) == IF p[3] = a THEN <<p[1], p[2], b>> ELSE p

\* The call incremental_compress(self.project.media_folder,
\* output_media_tarfile, incremental_file, self.b_compress_log_f, self.log)
\* (backup.py:127-128).
Call_incremental_compress(f, m, args, ok) ==
    IF Binds(args, incremental_compress_nparams)
    THEN incremental_compress(f, m, args[1], args[2], args[3], args[4], ok)
    ELSE Raise(f, "TypeError")

\* compress_media (backup.py:115-130).
compress_media(fs1, r, m) ==
    LET output_media_tarfile == WPath(r.current_folder, "media.tar")
        old_incremental_file ==
            BPath(get_backup_index(ProjectTitle, 1, r.b_time.month,
                                   r.b_time.year, None), ".inc")
        f0 == Info(fs1.files, r)
        f1 == IF ~Exists(f0, old_incremental_file)
              THEN Write(f0, old_incremental_file, {})
              ELSE f0
        incremental_file == Replace(old_incremental_file, ".inc", ".new.inc")
        f2 == Write(f1, incremental_file, f1[old_incremental_file])
        c == Call_incremental_compress(f2, m,
                 <<MediaFolder, output_media_tarfile, incremental_file,
                   FileObj(CompressLogPath(r)), Logger>>, r.env.tarInc)
    IN  IF c.exc # ""
        THEN Result(fs1, c.files, r, c.exc)
        ELSE LET g == Info(c.files, r)
                 dst == Replace(incremental_file, ".new.inc", ".inc")
             IN  Result(fs1, Remove(Write(g, dst, g[incremental_file]),
                                    incremental_file), r, "")

\* The call compress(self.current_folder, self.output_tarfile,
\* self.b_compress_log_f, self.log) (backup.py:172).
Call_compress(f, args, ok) ==
    IF Binds(args, compress_nparams)
    THEN compress(f, args[1], args[2], args[3], ok)
    ELSE Raise(f, "TypeError")

\* compress_all (backup.py:170-172).
compress_all(fs1, r) ==
    LET c == Call_compress(Info(fs1.files, r),
                 <<WPath(r.current_folder, ""), r.output_tarfile,
                   FileObj(CompressLogPath(r)), Logger>>, r.env.tarFull)
    IN  Result(fs1, c.files, r, c.exc)

\* clean_up (backup.py:153-156): shutil.rmtree of the work folder.
clean_up(fs1, r) ==
    LET f1 == Info(fs1.files, r)
        gone == WorkFiles(f1, r.current_folder)
    IN  IF r.current_folder \notin fs1.work
        THEN Result(fs1, f1, r, "OSError")
        ELSE [fs |-> [fs1 EXCEPT !.files = [p \in DOMAIN f1 \ gone |-> f1[p]],
                                 !.work = @ \ {r.current_folder}],
              r |-> r, exc |-> ""]

\* upload (backup.py:143-146).
upload(fs1, r) ==
    LET u == upload_files([fs1 EXCEPT !.files = Info(@, r)], r.output_tarfile,
                          r.env.upload)
    IN  IF u.exc # ""
        THEN [fs |-> u.fs, r |-> r, exc |-> u.exc]
        ELSE Result(u.fs, Info(u.fs.files, r), r, "")

\* finalize (backup.py:148-151).
finalize(fs1, r) ==
    IF ~Exists(fs1.files, LogPath(r))
    THEN Result(fs1, fs1.files, r, "IOError")
    ELSE LET n == send(fs1, r.b_index, LogPath(r), r.env.send)
         IN  [fs |-> n.fs, r |-> r, exc |-> n.exc]

\* backup (backup.py:174-187): the stage that leads to state `next`.
Stage(next, fs1, r, m) ==
    CASE next = "FoldersReady" -> create_folders(fs1, r)
      [] next = "DatabaseArchived" -> dump_compress_database(fs1, r)
      [] next = "MediaArchived" -> compress_media(fs1, r, m)
      [] next = "BundleArchived" -> compress_all(fs1, r)
      [] next = "CleanedUp" -> clean_up(fs1, r)
      [] next = "Uploaded" -> upload(fs1, r)
      [] next = "Reported" -> finalize(fs1, r)
      [] OTHER -> [fs |-> fs1, r |-> r, exc |-> ""]

\* --------------------------------------------- backup.py: Backuper, __main__
\* One iteration of the loop of backup.py:212-214.
ParseStep(b, t) == IF FirstChar(t) = FirstChar(b) \/ t = b THEN t ELSE b
\* The class argument sys.argv[3] (backup.py:209-217); None when absent.
ParseType(arg) ==
    IF arg = None THEN None ELSE ParseStep(ParseStep(arg, monthly), daily)

\* Backuper.__init__ (backup.py:88-113) and Project.__init__ (73-81).
Backuper_init(fs1, today, b_type_arg, env) ==
    LET b_type == IF b_type_arg = None THEN get_backup_type(today.day)
                  ELSE b_type_arg
        b_index == get_current_index(ProjectTitle, b_type, today)
        r == [IdleRun EXCEPT !.b_type = b_type, !.b_index = b_index,
                             !.b_time = today, !.env = env]
    IN  IF b_type \notin {daily, monthly}
        THEN Result(fs1, fs1.files, IdleRun, "ValueError")
        ELSE IF "project" \notin fs1.host \/ "media" \notin fs1.host
        THEN Result(fs1, fs1.files, IdleRun, "BackupException")
        ELSE IF "backups" \notin fs1.host
        THEN Result(fs1, fs1.files, IdleRun, "IOError")
        ELSE Result(fs1, Write(fs1.files, LogPath(r), {}), r, "")

Args == {None, "d", "m", daily, monthly, "weekly"}

\* __main__ in backup mode (backup.py:205-218).
Main(arg, env) ==
    /\ run.pc = "idle"
    /\ runs < MaxRuns
    /\ LET fs1 == generate_pgpass(fs)
           b_type == ParseType(arg)
           res == IF b_type # None /\ b_type \notin {monthly, daily}
                  THEN Result(fs1, fs1.files, IdleRun, "SystemExit")
                  ELSE Backuper_init(fs1, now, b_type, env)
       IN  /\ fs' = res.fs
           /\ run' = [res.r EXCEPT
                        !.pc = IF res.exc = "" THEN "Init" ELSE "Failed",
                        !.failed = IF res.exc = "" THEN "" ELSE "Init",
                        !.cause = res.exc,
                        !.env = env,
                        !.start = fs.files,
                        !.host0 = fs.host,
                        !.work0 = fs.work]
    /\ runs' = runs + 1
    /\ UNCHANGED <<now, media, hist, call>>

\* __main__ without a project or without a mode (backup.py:202-207): the
\* usage text is printed when there is no argument at all, the program goes
\* on, and sys.argv[1] or sys.argv[2] raises IndexError.
MainUsage ==
    /\ run.pc = "idle"
    /\ runs < MaxRuns
    /\ fs' = generate_pgpass(fs)
    /\ run' = [IdleRun EXCEPT !.pc = "Failed", !.failed = "Init",
                              !.cause = "IndexError",
                              !.start = fs.files, !.host0 = fs.host,
                              !.work0 = fs.work]
    /\ runs' = runs + 1
    /\ UNCHANGED <<now, media, hist, call>>

\* Where backup() is after the stage leading to `next` returned or raised
\* `exc` (backup.py:181-187): no try/except, an exception leaves backup().
After_swallow(next, exc) == next
After(next, exc) == IF exc = "" THEN next ELSE "Failed"

\* b.backup() (backup.py:219, 174-187): the next stage of the pipeline runs;
\* an exception leaves backup() and ends the process.
BackupStep ==
    /\ run.pc \in Running
    /\ LET next == NextState(run.pc)
           res == Stage(next, fs, run, media)
       IN  /\ fs' = res.fs
           /\ run' = [res.r EXCEPT
                        !.pc = After(next, res.exc),
                        !.trace = Append(@, next),
                        !.failed = IF res.exc = "" THEN "" ELSE next,
                        !.cause = res.exc,
                        !.archive = IF next = "MediaArchived" /\ res.exc = ""
                                    THEN res.fs.files[WPath(run.current_folder, "media.tar")]
                                    ELSE @,
                        !.archived = IF next = "MediaArchived" /\ res.exc = ""
                                     THEN Snapshot(media) ELSE @]
           /\ hist' = IF next = "MediaArchived" /\ res.exc = "" /\ run.b_type = monthly
                      THEN [hist EXCEPT !.monthly = Snapshot(media),
                                        !.month = run.b_time.month]
                      ELSE hist
    /\ UNCHANGED <<now, media, runs, call>>

\* The process is over; the next invocation may start.
Exit ==
    /\ run.pc \in {"Done", "Failed"}
    /\ run' = IdleRun
    /\ hist' = [hist EXCEPT !.prev = [ok |-> run.trace # <<>> /\ run.env = AllSucceed,
                                      date |-> run.b_time,
                                      changed |-> FALSE]]
    /\ UNCHANGED <<now, media, fs, runs, call>>

\* The next calendar day.  The date is read in __init__ only (backup.py:58,
\* 67, 112), so it moves between processes.
Tick ==
    /\ run.pc = "idle"
    /\ \/ /\ now.day < MaxDay
          /\ now' = [now EXCEPT !.day = @ + 1]
       \/ /\ now.day = MaxDay
          /\ now.month < MaxMonth
          /\ now' = [now EXCEPT !.day = 1, !.month = @ + 1]
    /\ UNCHANGED <<media, fs, run, runs, hist, call>>

\* A media file is added or rewritten.
MediaChange ==
    /\ \E e \in Entries :
          /\ media[e] < MaxVersion
          /\ media' = [media EXCEPT ![e] = @ + 1]
    /\ hist' = [hist EXCEPT !.prev.changed = TRUE]
    /\ UNCHANGED <<now, fs, run, runs, call>>

Dates == [day : 1..MaxDay, month : 1..MaxMonth, year : {StartYear}]

Init ==
    /\ now \in Dates
    /\ media = [e \in Entries |-> 0]
    /\ fs \in [files : {EmptyFs}, work : {{}},
               host : SUBSET {"project", "media", "backups"},
               remote : {{}}, reports : {{}}]
    /\ run = IdleRun
    /\ runs = 0
    /\ hist = [monthly |-> {}, month |-> 0,
               prev |-> [ok |-> FALSE, date |-> NoDate, changed |-> FALSE]]
    /\ call = NoCall

Next ==
    \/ \E arg \in Args, env \in Env : Main(arg, env)
    \/ MainUsage
    \/ BackupStep
    \/ Exit
    \/ Tick
    \/ MediaChange

Spec == Init /\ [][Next]_vars

\* ------------------------------------------- the index functions, called
\* get_backup_index called directly with any arguments.
IndexProjects == {PyStr(ProjectTitle), PyStr(""), PyInt(7)}
IndexDays == {PyInt(d) : d \in 0..32}
IndexMonths == {PyInt(m) : m \in 0..13}
IndexYears == {PyInt(5), PyInt(1999), PyInt(2005), PyInt(2024), PyNone}
IndexTypes == {None, daily, monthly, "weekly"}

Idle ==
    /\ media = [e \in Entries |-> 0]
    /\ fs = [files |-> EmptyFs, work |-> {}, host |-> {}, remote |-> {},
             reports |-> {}]
    /\ run = IdleRun
    /\ runs = 0
    /\ hist = [monthly |-> {}, month |-> 0,
               prev |-> [ok |-> FALSE, date |-> NoDate, changed |-> FALSE]]

CallIndex ==
    /\ call = NoCall
    /\ \E p \in IndexProjects, d \in IndexDays, m \in IndexMonths,
          y \in IndexYears, t \in IndexTypes :
          LET res == get_backup_index_call(p, d, m, y, t, now)
          IN  call' = [fn |-> "get_backup_index", project |-> p, day |-> d,
                       month |-> m, year |-> y, b_type |-> t,
                       exc |-> res.exc, value |-> res.value]
    /\ UNCHANGED <<now, media, fs, run, runs, hist>>

InitIndex ==
    /\ now \in Dates
    /\ Idle
    /\ call = NoCall

SpecIndex == InitIndex /\ [][CallIndex]_vars

\* get_current_index called on any day of the calendar.
CurrentDates == [day : 1..31, month : 1..12, year : {2005, StartYear}]

CallCurrent ==
    /\ call = NoCall
    /\ \E t \in IndexTypes :
          call' = [NoCall EXCEPT !.fn = "get_current_index",
                                 !.project = PyStr(ProjectTitle),
                                 !.b_type = t,
                                 !.value = get_current_index(ProjectTitle, t, now)]
    /\ UNCHANGED <<now, media, fs, run, runs, hist>>

InitCurrent ==
    /\ now \in CurrentDates
    /\ Idle
    /\ call = NoCall

SpecCurrent == InitCurrent /\ [][CallCurrent]_vars

\* ================================================================ claims
Terminated == run.pc \in {"Done", "Failed"}
\* backup() was entered: the constructor returned.
Started == run.trace # <<>>
BaselinePath(r) ==
    BPath(get_backup_index(ProjectTitle, 1, r.b_time.month, r.b_time.year, None), ".inc")
WorkingPath(r) ==
    BPath(get_backup_index(ProjectTitle, 1, r.b_time.month, r.b_time.year, None), ".new.inc")
Entered == {run.trace[i] : i \in 1..Len(run.trace)}
Same(f, g, p) == (Exists(f, p) <=> Exists(g, p)) /\ (Exists(f, p) => f[p] = g[p])
\* The media snapshot of the month's most recent Monthly run, {} without one.
MonthlyBaseline == IF hist.month = run.b_time.month THEN hist.monthly ELSE {}

\* Every run stops in the database stage: compress_file is called with three
\* positional arguments (backup.py:139) and takes two (archivator.py:12).
DatabaseStageRaises ==
    /\ run.pc \in {"idle", "Init", "FoldersReady", "Failed"}
    /\ (run.pc = "Failed" /\ Started) =>
           /\ run.failed = "DatabaseArchived"
           /\ run.cause \in {"TypeError", "DumpError"}

\* C2: a run whose incremental archiver exits non-zero ends Failed at the
\* media stage, with the baseline manifest as it was before the run (same
\* existence, same content) and no bundle tar produced.
C2_ArchiverFailure ==
    (Terminated /\ Started /\ run.env = OnlyFails("tarInc")) =>
        /\ run.pc = "Failed"
        /\ run.failed = "MediaArchived"
        /\ Same(fs.files, run.start, BaselinePath(run))
        /\ Same(fs.files, run.start, run.output_tarfile)

\* C3: the media archive of a Daily run whose collaborators all succeed holds
\* exactly the entries changed since the month's most recent Monthly run.
C3_DailyAgainstMonthly ==
    (Terminated /\ Started /\ run.env = AllSucceed /\ run.b_type = daily) =>
        /\ run.archive # NoArchive
        /\ run.archive = run.archived \ MonthlyBaseline

\* C4: the media archive of a Monthly run whose collaborators all succeed is
\* a full archive of the media folder, and the manifest it commits is that
\* new baseline.
C4_MonthlyResets ==
    (Terminated /\ Started /\ run.env = AllSucceed /\ run.b_type = monthly) =>
        /\ run.archive # NoArchive
        /\ run.archive = run.archived
        /\ Exists(fs.files, BaselinePath(run))
        /\ fs.files[BaselinePath(run)] = run.archived

\* C5: a second fully successful run on the same day with the media folder
\* unchanged archives no media entry, and still produces a fresh dump archive
\* and a fresh bundle.
C5_SecondRunSameDay ==
    (/\ Terminated /\ Started /\ run.env = AllSucceed
     /\ hist.prev.ok /\ hist.prev.date = run.b_time /\ ~hist.prev.changed) =>
        /\ run.pc = "Done"
        /\ run.archive = {}
        /\ Exists(fs.files, run.output_tarfile)
        /\ fs.files[run.output_tarfile] = {<<"dump.tar.gz", 0>>, <<"media.tar", 0>>}

\* C6: when the media stage of a run is due (the dumper succeeds) and no
\* baseline manifest exists for the run's month, the baseline is created, the
\* archiver works from an empty manifest, and the media archive holds every
\* media entry.
C6_Bootstrap ==
    (/\ Terminated /\ Started /\ run.env.dump /\ run.env.tarInc
     /\ ~Exists(run.start, BaselinePath(run))) =>
        /\ Exists(fs.files, BaselinePath(run))
        /\ run.archive # NoArchive
        /\ run.archive = run.archived

\* The trace is a prefix of the pipeline; a failed run failed at the last
\* stage it entered; a database-stage failure leaves both manifests alone.
C7_Order ==
    /\ \A i \in 1..Len(run.trace) : run.trace[i] = States[i + 1]
    /\ run.pc = "Failed" => (run.failed = "Init" /\ ~Started)
                            \/ (Started /\ run.failed = run.trace[Len(run.trace)])
    /\ "Uploaded" \in Entered => {"BundleArchived", "CleanedUp"} \subseteq Entered
    /\ run.failed = "DatabaseArchived" =>
           /\ Same(fs.files, run.start, BaselinePath(run))
           /\ Same(fs.files, run.start, WorkingPath(run))
\* Once a stage has raised, the trace grows no more in that run.
C7_NoStageAfterFailure ==
    run.failed # "" => (run'.trace = run.trace \/ run'.pc = "idle")
\* C7: within one backup() the stages are entered in the order of the
\* pipeline, none twice; once a stage has failed no later stage is started in
\* that run; nothing is uploaded without a bundle produced and the work folder
\* cleaned up; the manifest is not committed after a database-stage failure.
C7_StagesInOrder == [](C7_Order) /\ [][C7_NoStageAfterFailure]_vars
C7_Witness ==
    /\ run.pc = "Failed"
    /\ run.failed = "DatabaseArchived"
    /\ run.trace = <<"FoldersReady", "DatabaseArchived">>
    /\ ~Exists(fs.files, BaselinePath(run))

\* C8: a run fails at one named stage or is Done, and a run whose
\* collaborators all succeed ends Done having passed every stage.
C8_AllSucceedIsDone ==
    /\ run.pc = "Failed" => run.failed \in {States[i] : i \in 1..Len(States)}
    /\ (Terminated /\ Started /\ run.env = AllSucceed) =>
           /\ run.pc = "Done"
           /\ run.trace = Tail(States)

\* C9: when only the Notifier fails the run is Done, the failure is logged,
\* and the uploaded bundle and the committed manifest stay.
C9_ReportIsBestEffort ==
    (Terminated /\ Started /\ run.env = OnlyFails("send")) =>
        /\ run.pc = "Done"
        /\ <<"error", 0>> \in fs.files[LogPath(run)]
        /\ run.output_tarfile \in fs.remote
        /\ Exists(fs.files, BaselinePath(run))

\* C10: when the upload fails the run is Failed at upload, nothing is
\* reported, the bundle of this run is on disk, the work folder is gone and
\* the manifest stays committed.
C10_UploadFailure ==
    (Terminated /\ Started /\ run.env = OnlyFails("upload")) =>
        /\ run.pc = "Failed"
        /\ run.failed = "Uploaded"
        /\ run.b_index \notin fs.reports
        /\ Exists(fs.files, run.output_tarfile)
        /\ run.current_folder \notin fs.work
        /\ Exists(fs.files, BaselinePath(run))
        /\ ~Exists(fs.files, WorkingPath(run))

\* C11: when a run has failed inside backup(), an entry describing the error
\* is in the per-run log.
C11_ErrorsLogged ==
    (run.pc = "Failed" /\ Started) => <<"error", 0>> \in fs.files[LogPath(run)]

\* The identifier '<project>-<c>-<dd>-<mm>-<yy>' written out digit by digit.
TwoDigits(n) == <<Digit((n \div 10) % 10), Digit(n % 10)>>
ClassLetter(day, b_type) ==
    IF b_type = daily THEN "d"
    ELSE IF b_type = monthly THEN "m"
    ELSE IF day = 1 THEN "m" ELSE "d"
Identifier(project, c, day, month, year) ==
    <<project, "-", c, "-">> \o TwoDigits(day) \o <<"-">> \o TwoDigits(month)
        \o <<"-">> \o TwoDigits(year)
\* get_backup_index was called with a project name, a day in 1..31, a month
\* in 1..12 and a year.
IndexCalled ==
    /\ call.fn = "get_backup_index"
    /\ call.project.type = "str"
    /\ call.day.n \in 1..31
    /\ call.month.n \in 1..12
    /\ call.year.type = "int"
IndexExpected ==
    Identifier(call.project.s, ClassLetter(call.day.n, call.b_type),
               call.day.n, call.month.n, call.year.n)

\* C12 as stated: for every project name, day in 1..31, month in 1..12, year
\* and optional class, get_backup_index returns '<project>-<c>-<dd>-<mm>-<yy>'
\* with yy the last two digits of the year.
C12_IndexFormatAnyYear ==
    IndexCalled => (call.exc = "" /\ call.value = IndexExpected)
\* C12, amended: the same for every year of at least two digits (year >= 10);
\* a year below 10 gives a single character.
C12_IndexFormat ==
    (IndexCalled /\ call.year.n >= 10) =>
        (call.exc = "" /\ call.value = IndexExpected)
C12_Witness ==
    /\ call.fn = "get_backup_index"
    /\ call.project = PyStr("acme")
    /\ call.day = PyInt(1) /\ call.month = PyInt(3) /\ call.year = PyInt(2024)
    /\ call.b_type = None
    /\ call.value = <<"acme", "-", "m", "-", "0", "1", "-", "0", "3", "-", "2", "4">>

\* C13: on every date, get_current_index with the class Monthly returns the
\* identifier with the class letter m and the day 01, which depends on the
\* project, the month and the year only: one Monthly identifier per month.
C13_MonthlyIdentifier ==
    (call.fn = "get_current_index" /\ call.b_type = monthly) =>
        call.value = Identifier(ProjectTitle, "m", 1, now.month, now.year)
C13_Witness ==
    /\ call.fn = "get_current_index"
    /\ call.b_type = monthly
    /\ now = [day |-> 15, month |-> 3, year |-> StartYear]
    /\ call.value[3] = "m"
    /\ SubSeq(call.value, 5, 6) = <<"0", "1">>

\* C14: called with the year omitted, get_backup_index succeeds and returns
\* what it returns for the current calendar year.
C14_YearDefault ==
    (/\ call.fn = "get_backup_index"
     /\ call.project.type = "str"
     /\ call.day.n \in 1..31
     /\ call.month.n \in 1..12
     /\ call.year = PyNone) =>
        /\ call.exc = ""
        /\ call.value = get_backup_index(call.project.s, call.day.n,
                                         call.month.n, now.year, call.b_type)

\* C15: get_backup_index fails, returning no identifier, when the project is
\* not a non-empty string, or the day is outside 1..31, or the month is
\* outside 1..12 (any exception is taken for the configuration error).
C15_RejectsBadArguments ==
    (/\ call.fn = "get_backup_index"
     /\ \/ call.project.type # "str"
        \/ call.project.s = ""
        \/ call.day.n \notin 1..31
        \/ call.month.n \notin 1..12) =>
        /\ call.exc # ""
        /\ call.value = NoIdx

\* A configuration error: usage error, class argument not recognised,
\* project folder or media folder missing.
ConfigurationError == run.cause \in {"IndexError", "SystemExit", "BackupException"}

\* C16: when a configuration error ends the process, nothing has been
\* created or written since the process started: no pgpass file, no per-run
\* log, no folder, no manifest.
C16_NoSideEffectBeforeConfigurationError ==
    (run.pc = "Failed" /\ run.failed = "Init" /\ ConfigurationError) =>
        /\ fs.host = run.host0
        /\ fs.files = run.start
        /\ fs.work = run.work0

====
